---- MODULE Spec2Model ----
(***************************************************************************)
(* dfu-nusb: the USB transport adapter that lets the dfu-core protocol     *)
(* engine drive a device through nusb (src/lib.rs).                        *)
(*                                                                         *)
(* Four specifications share the variables below:                          *)
(*   SpecOpen    DfuNusb::open_device over a list of attached devices      *)
(*   SpecBind    DfuNusb::from_usb_device over an opened device            *)
(*   SpecIo      the DfuIo operations of a constructed adapter             *)
(*   SpecLocate  DfuNusb::find_functional_descriptor over byte streams     *)
(* The calls into nusb and dfu-core are modelled at their call sites: an   *)
(* operation of the USB layer whose outcome the device decides is a        *)
(* nondeterministic choice, a parser of dfu-core is an operator.           *)
(***************************************************************************)
EXTENDS Integers, Sequences, FiniteSets, TLC

\* ---------------------------------------------------------------- bounds
MaxConfigs == 3
MaxDevices == 3
MaxCalls == 2

\* ------------------------------------------------------ program constants
\* Duration::from_secs(3): the adapter's transfer timeout, in seconds.
TimeoutSecs == 3
\* Duration::from_millis(1000): the string-descriptor timeout.
StringTimeoutMs == 1000
\* chunks(9): the width of a descriptor window.
ChunkSize == 9

Min(a, b) == IF a < b THEN a ELSE b

\* ------------------------------------------------- explode_request_type
\* Faulty variant: the class field masked with 0b111, so that bit 7 counts.
explode_request_type_wide_mask(request_type) ==
    LET control_type == CASE (request_type \div 32) % 8 = 0 -> "Standard"
                          [] (request_type \div 32) % 8 = 1 -> "Class"
                          [] OTHER -> "Vendor"
        recipient == CASE request_type % 4 = 0 -> "Device"
                       [] request_type % 4 = 1 -> "Interface"
                       [] request_type % 4 = 2 -> "Endpoint"
                       [] OTHER -> "Other"
    IN  <<control_type, recipient>>

\* (request_type >> 5) & 0b11 and request_type & 0b11, each matched with a
\* default arm.
explode_request_type(request_type) ==
    LET control_type == CASE (request_type \div 32) % 4 = 0 -> "Standard"
                          [] (request_type \div 32) % 4 = 1 -> "Class"
                          [] OTHER -> "Vendor"
        recipient == CASE request_type % 4 = 0 -> "Device"
                       [] request_type % 4 = 1 -> "Interface"
                       [] request_type % 4 = 2 -> "Endpoint"
                       [] OTHER -> "Other"
    IN  <<control_type, recipient>>

\* ------------------------------------------------------------ Option
None == [some |-> FALSE]
Some(x) == [some |-> TRUE, val |-> x]

\* Iterator::find over a sequence: the least of the indices I of the
\* elements that satisfy the test, 0 when there is none.
FirstIndex(I) == IF I = {} THEN 0 ELSE CHOOSE i \in I : \A j \in I : i <= j

\* --------------------------------- dfu_core::FunctionalDescriptor::from_bytes
\* The parser find_functional_descriptor hands each window to.  It answers
\*   None            for a slice shorter than 2 bytes, or whose second byte
\*                   (bDescriptorType) is not 0x21;
\*   Some(Err(..))   for a slice of descriptor type 0x21 shorter than 9 bytes;
\*   Some(Ok(desc))  otherwise.
\* "consumed" is the number of bytes of the slice the parser has read.
DfuFunctionalType == 33

Bit(b, k) == (b \div (2 ^ k)) % 2 = 1

from_bytes(bytes) ==
    IF Len(bytes) < 2 THEN [tag |-> "None", consumed |-> 0]
    ELSE IF bytes[2] # DfuFunctionalType THEN [tag |-> "None", consumed |-> 2]
    ELSE IF Len(bytes) < ChunkSize
         THEN [tag |-> "Err", consumed |-> 2, err |-> "DataTooShort"]
    ELSE [tag |-> "Ok", consumed |-> ChunkSize,
          desc |-> [can_download |-> Bit(bytes[3], 0),
                    can_upload |-> Bit(bytes[3], 1),
                    manifestation_tolerant |-> Bit(bytes[3], 2),
                    will_detach |-> Bit(bytes[3], 3),
                    detach_timeout |-> bytes[4] + 256 * bytes[5],
                    transfer_size |-> bytes[6] + 256 * bytes[7],
                    dfu_version |-> <<bytes[9], bytes[8]>>]]

\* ------------------------------------------------ find_functional_descriptor
\* Faulty variant: chunks_exact(9), which leaves the shorter last slice out.
chunks_exact(bytes) ==
    [i \in 1..(Len(bytes) \div ChunkSize) |->
        SubSeq(bytes, (i - 1) * ChunkSize + 1, i * ChunkSize)]

\* <[u8]>::chunks(9): consecutive slices of 9 bytes, the last one shorter
\* when the length is not a multiple of 9.
chunks(bytes) ==
    [i \in 1..((Len(bytes) + ChunkSize - 1) \div ChunkSize) |->
        SubSeq(bytes, (i - 1) * ChunkSize + 1, Min(i * ChunkSize, Len(bytes)))]

\* The for loop over the windows from window i on: the first window the
\* parser answers Some for decides, with its error converted (map_err).
\* "window" is the deciding window (0 when none decides) and "examined" the
\* number of windows handed to the parser.
RECURSIVE scan_windows(_, _)
scan_windows(cs, i) ==
    IF i > Len(cs) THEN [tag |-> "None", window |-> 0, examined |-> Len(cs)]
    ELSE LET r == from_bytes(cs[i])
         IN  CASE r.tag = "Ok" ->
                    [tag |-> "Ok", desc |-> r.desc, window |-> i, examined |-> i]
               [] r.tag = "Err" ->
                    [tag |-> "Err", err |-> "FunctionalDescriptor",
                     window |-> i, examined |-> i]
               [] OTHER -> scan_windows(cs, i + 1)

\* Faulty variant: a window that fails to parse is skipped.
RECURSIVE scan_windows_skipping(_, _)
scan_windows_skipping(cs, i) ==
    IF i > Len(cs) THEN [tag |-> "None", window |-> 0, examined |-> Len(cs)]
    ELSE LET r == from_bytes(cs[i])
         IN  CASE r.tag = "Ok" ->
                    [tag |-> "Ok", desc |-> r.desc, window |-> i, examined |-> i]
               [] OTHER -> scan_windows_skipping(cs, i + 1)

find_functional_descriptor_skipping(descriptors) ==
    scan_windows_skipping(chunks(descriptors), 1)

find_functional_descriptor(descriptors) == scan_windows(chunks(descriptors), 1)

\* ------------------------------------------------------ str::trim_end_matches
\* trim_end_matches('\0'): every trailing NUL is removed.
RECURSIVE trim_end_matches(_)
trim_end_matches(s) ==
    IF Len(s) > 0 /\ s[Len(s)] = 0
    THEN trim_end_matches(SubSeq(s, 1, Len(s) - 1))
    ELSE s

\* ----------------------------------------------------- dfu_core::DfuProtocol::new
\* The protocol variant of an interface string and a DFU version.  Version
\* 1.1a (DfuSe) needs a string of the form name/address/layout, two '/'
\* (47) separated fields after the name, and none of them holding a NUL;
\* any other version is plain DFU whatever the string is.
SlashCount(s) == Cardinality({i \in 1..Len(s) : s[i] = 47})

DfuProtocol_new(interface_string, version) ==
    IF version = <<1, 26>>
    THEN IF SlashCount(interface_string) >= 2
            /\ \A i \in 1..Len(interface_string) : interface_string[i] # 0
         THEN [tag |-> "Ok",
               protocol |-> [kind |-> "Dfuse", layout |-> interface_string]]
         ELSE [tag |-> "Err", err |-> "Dfu"]
    ELSE [tag |-> "Ok", protocol |-> [kind |-> "Dfu", layout |-> <<>>]]

\* ------------------------------------------------------------ the devices
\* Descriptor windows: a configuration descriptor, an interface descriptor,
\* a DFU functional descriptor of version 1.1a (DfuSe) and one of 1.10.
WinConfig == <<9, 2, 27, 0, 1, 1, 0, 128, 50>>
WinIface == <<9, 4, 0, 0, 0, 254, 1, 2, 4>>
WinDfuse == <<9, 33, 11, 255, 0, 0, 8, 26, 1>>
WinDfu == <<9, 33, 1, 0, 1, 64, 0, 16, 1>>

\* Descriptor byte streams of a configuration.
StreamNoDfu == WinConfig \o WinIface
StreamDfuseThird == WinConfig \o WinIface \o WinDfuse
StreamTwoDfu == WinConfig \o WinDfu \o WinDfuse
StreamCutDfu == WinConfig \o <<9, 33, 1>>
StreamCutOne == WinConfig \o WinIface \o <<9>>
StreamDfuThenCut == WinConfig \o WinDfu \o <<9, 33>>
StreamCutOther == WinConfig \o <<7, 5, 129, 3>>

\* Interface lists of a configuration; string_index is the alt-setting's
\* iInterface byte, 0 when it has no string.
IfacesA ==
    << [interface_number |-> 0,
        alt_settings |-> << [alternate_setting |-> 0, string_index |-> 4],
                            [alternate_setting |-> 1, string_index |-> 0] >>] >>
IfacesB ==
    << [interface_number |-> 1,
        alt_settings |-> << [alternate_setting |-> 0, string_index |-> 5],
                            [alternate_setting |-> 1, string_index |-> 6] >>],
       [interface_number |-> 0,
        alt_settings |-> << [alternate_setting |-> 0, string_index |-> 0] >>] >>

Configs ==
    { [descriptors |-> d, interfaces |-> IfacesA] :
        d \in {StreamNoDfu, StreamDfuseThird, StreamTwoDfu, StreamCutDfu,
               StreamCutOne, StreamDfuThenCut, StreamCutOther} }
    \cup
    { [descriptors |-> d, interfaces |-> IfacesB] :
        d \in {StreamDfuseThird, StreamTwoDfu} }

\* The device's string descriptors: "@/0/1" followed by a NUL, "DFU", and
\* "@/0/1".
StringTable ==
    (4 :> <<64, 47, 48, 47, 49, 0>>) @@ (5 :> <<68, 70, 85>>)
    @@ (6 :> <<64, 47, 48, 47, 49>>)

SeqsUpTo(S, n) == UNION { [1..k -> S] : k \in 1..n }

Devices ==
    { [configs |-> cs, has_languages |-> l] :
        cs \in SeqsUpTo(Configs, MaxConfigs), l \in BOOLEAN }

IfaceNums == {0, 1}
AltSettings == {0, 1}

\* The attached devices nusb::list_devices() reports.
UsbIds == {1, 2}
DeviceInfos ==
    [vendor_id : UsbIds, product_id : UsbIds, open_ok : BOOLEAN]

NoDevice == [configs |-> <<>>, has_languages |-> FALSE]
NoAdapter == [live |-> FALSE]
NoTransfer == [dir |-> "None"]
Pending == [tag |-> "Pending"]
Ok == [tag |-> "Ok"]
Err(kind) == [tag |-> "Err", err |-> kind]

VARIABLES
    stream,     \* SpecLocate: a configuration's descriptor bytes
    located,    \* SpecLocate: what find_functional_descriptor returned
    devs,       \* SpecOpen: the devices list_devices() yields, in order
    vid, pid,   \* SpecOpen: the IDs asked for
    opened,     \* the index in devs of the device open_device returned, or 0
    device,     \* the Device handed to from_usb_device
    iface_num,  \* from_usb_device's iface_num
    alt,        \* from_usb_device's alt
    pc,         \* the position of the call
    cfg,        \* the index of the configuration the for loop is at
    claimed,    \* whether the interface is claimed (an Interface is alive)
    result,     \* what the call has returned
    adapter,    \* the DfuNusb constructed, once there is one
    visited,    \* history: the configurations examined, with what came of each
    usbLog,     \* history: the calls made to the USB layer, with their outcome
    lastXfer,   \* SpecIo: the last control transfer issued
    calls       \* SpecIo: history, the number of DfuIo calls made

vars == <<stream, located, devs, vid, pid, opened, device, iface_num, alt, pc, cfg, claimed,
          result, adapter, visited, usbLog, lastXfer, calls>>

\* ------------------------------------------------------------ open_device
\* list_devices()? ... .find(vid && pid).ok_or(CouldNotOpenDevice)
\*   .and_then(|dev_info| dev_info.open().map_err(|e| e.into()))
\* An io::Error converts into Error::Io (#[from]).
open_device ==
    /\ pc = "start"
    /\ \E list_ok \in BOOLEAN :
         LET i == FirstIndex({k \in 1..Len(devs) :
                      devs[k].vendor_id = vid /\ devs[k].product_id = pid})
             listed == [call |-> "list_devices", ok |-> list_ok, arg |-> 0]
         IN  IF ~list_ok
             THEN /\ result' = Err("Io") /\ opened' = 0 /\ pc' = "done"
                  /\ usbLog' = <<listed>>
             ELSE IF i = 0
             THEN /\ result' = Err("CouldNotOpenDevice") /\ opened' = 0
                  /\ pc' = "done" /\ usbLog' = <<listed>>
             ELSE /\ usbLog' = <<listed, [call |-> "open",
                                          ok |-> devs[i].open_ok, arg |-> i]>>
                  /\ IF devs[i].open_ok
                     THEN result' = Ok /\ opened' = i /\ pc' = "opened"
                     ELSE result' = Err("Io") /\ opened' = 0 /\ pc' = "done"
    /\ UNCHANGED <<stream, located, devs, vid, pid, device, iface_num, alt,
                   cfg, claimed, adapter, visited, lastXfer, calls>>

\* --------------------------------------------------------- from_usb_device
\* An Interface releases its claim when it is dropped: the local iface goes
\* out of scope on every return of from_usb_device that has not moved it
\* into the adapter, and the adapter's field goes with the adapter.
\* Faulty variant: the claim outlives the handle.
drop_iface_leak(c) == c

drop_iface(c) == FALSE

\* Faulty variant: only the first configuration is looked at.
configurations_first_only(dev) == SubSeq(dev.configs, 1, 1)

\* device.configurations(), in the device's order.
configurations(dev) == dev.configs

\* config.interfaces().find(|x| x.interface_number() == iface_num)
find_interface(config, n) ==
    LET i == FirstIndex({k \in 1..Len(config.interfaces) :
                 config.interfaces[k].interface_number = n})
    IN  IF i = 0 THEN None ELSE Some(config.interfaces[i])

\* Faulty variant: the first alt-setting, whatever its number.
find_alt_first(interface, a) ==
    LET i == FirstIndex(1..Len(interface.alt_settings))
    IN  IF i = 0 THEN None ELSE Some(interface.alt_settings[i])

\* interface.alt_settings().find(|x| x.alternate_setting() == alt)
find_alt(interface, a) ==
    LET i == FirstIndex({k \in 1..Len(interface.alt_settings) :
                 interface.alt_settings[k].alternate_setting = a})
    IN  IF i = 0 THEN None ELSE Some(interface.alt_settings[i])

\* Faulty variant: an iInterface of 0 taken for a string index.
string_index_raw(setting) == Some(setting.string_index)

\* setting.string_index(): None for an iInterface of 0.
string_index(setting) ==
    IF setting.string_index = 0 THEN None ELSE Some(setting.string_index)

\* device.get_string_descriptor(string_ix, 0, 1000 ms): the device answers
\* with the string, or the request fails (a stall, a timeout, index 0).  The
\* language ID passed is 0 whether or not the device has a language table.
get_string_descriptor(string_ix) ==
    {Err("Io")} \cup
    (IF string_ix \in DOMAIN StringTable
     THEN {[tag |-> "Ok", str |-> StringTable[string_ix]]}
     ELSE {})

\* The DfuNusb value built on success.
DfuNusb(n, a, protocol, func_desc) ==
    [live |-> TRUE,
     iface |-> [interface_number |-> n, alt_setting |-> a],
     protocol |-> protocol,
     timeout |-> TimeoutSecs,
     functional_descriptor |-> func_desc]

\* let iface = device.claim_interface(iface_num)?;
claim_interface ==
    /\ pc = "opened"
    /\ \E ok \in BOOLEAN :
         /\ usbLog' = Append(usbLog, [call |-> "claim_interface", ok |-> ok,
                                      arg |-> iface_num])
         /\ IF ok
            THEN claimed' = TRUE /\ pc' = "claimed" /\ UNCHANGED result
            ELSE result' = Err("Io") /\ pc' = "done" /\ UNCHANGED claimed
    /\ UNCHANGED <<stream, located, devs, vid, pid, opened, device, iface_num,
                   alt, cfg, adapter, visited, lastXfer, calls>>

\* iface.set_alt_setting(alt)?;
set_alt_setting ==
    /\ pc = "claimed"
    /\ \E ok \in BOOLEAN :
         /\ usbLog' = Append(usbLog, [call |-> "set_alt_setting", ok |-> ok,
                                      arg |-> alt])
         /\ IF ok
            THEN pc' = "scan" /\ cfg' = 1 /\ UNCHANGED <<result, claimed>>
            ELSE result' = Err("Io") /\ claimed' = drop_iface(claimed)
                 /\ pc' = "done" /\ UNCHANGED cfg
    /\ UNCHANGED <<stream, located, devs, vid, pid, opened, device, iface_num,
                   alt, adapter, visited, lastXfer, calls>>

\* An error return from inside the loop.
Return_Err(kind, outcome, reqs) ==
    /\ result' = Err(kind)
    /\ claimed' = drop_iface(claimed)
    /\ pc' = "done"
    /\ visited' = Append(visited, [config |-> cfg, outcome |-> outcome])
    /\ usbLog' = reqs
    /\ UNCHANGED <<cfg, adapter>>

\* The loop body falls through to the next configuration.
Continue(outcome) ==
    /\ cfg' = cfg + 1
    /\ visited' = Append(visited, [config |-> cfg, outcome |-> outcome])
    /\ UNCHANGED <<result, claimed, pc, adapter, usbLog>>

\* One iteration of for config in device.configurations() { ... }.
scan_config ==
    /\ pc = "scan"
    /\ cfg <= Len(configurations(device))
    /\ LET config == configurations(device)[cfg]
           loc == find_functional_descriptor(config.descriptors)
           interface == find_interface(config, iface_num)
           setting == find_alt(interface.val, alt)
           string_ix == string_index(setting.val)
       IN  IF loc.tag = "None" THEN Continue("NotFound")
           ELSE IF loc.tag = "Err"
           THEN Return_Err("FunctionalDescriptor", "ParseError", usbLog)
           ELSE IF ~interface.some
           THEN Return_Err("InvalidInterface", "InvalidInterface", usbLog)
           ELSE IF ~setting.some
           THEN Return_Err("InvalidAlt", "InvalidAlt", usbLog)
           ELSE IF ~string_ix.some THEN Continue("NoStringIndex")
           ELSE \E reply \in get_string_descriptor(string_ix.val) :
                  LET reqs == Append(usbLog,
                                [call |-> "get_string_descriptor",
                                 ok |-> reply.tag = "Ok",
                                 arg |-> string_ix.val, language |-> 0,
                                 timeout_ms |-> StringTimeoutMs])
                      iface_string == trim_end_matches(reply.str)
                      protocol == DfuProtocol_new(iface_string,
                                                  loc.desc.dfu_version)
                  IN  IF reply.tag = "Err"
                      THEN Return_Err("Io", "StringError", reqs)
                      ELSE IF protocol.tag = "Err"
                      THEN Return_Err("Dfu", "ProtocolError", reqs)
                      ELSE /\ adapter' = DfuNusb(iface_num, alt,
                                                 protocol.protocol, loc.desc)
                           /\ result' = Ok
                           /\ pc' = "bound"
                           /\ visited' = Append(visited,
                                [config |-> cfg, outcome |-> "Bound"])
                           /\ usbLog' = reqs
                           /\ UNCHANGED <<cfg, claimed>>
    /\ UNCHANGED <<stream, located, devs, vid, pid, opened, device, iface_num, alt,
                   lastXfer, calls>>

\* Err(Error::NoDfuCapableDeviceFound), after the loop.
loop_exhausted ==
    /\ pc = "scan"
    /\ cfg > Len(configurations(device))
    /\ result' = Err("NoDfuCapableDeviceFound")
    /\ claimed' = drop_iface(claimed)
    /\ pc' = "done"
    /\ UNCHANGED <<stream, located, devs, vid, pid, opened, device, iface_num, alt, cfg,
                   adapter, visited, usbLog, lastXfer, calls>>

\* The caller drops the adapter: its Interface goes with it.
drop_adapter ==
    /\ pc = "bound"
    /\ adapter' = NoAdapter
    /\ claimed' = drop_iface(claimed)
    /\ pc' = "dropped"
    /\ UNCHANGED <<stream, located, devs, vid, pid, opened, device, iface_num, alt, cfg,
                   result, visited, usbLog, lastXfer, calls>>

\* ------------------------------------------------------------------ DfuIo
Bytes == 0..255
\* The (request, value) pairs the engine passes: DFU_DNLOAD of block 65535,
\* DFU_GETSTATUS with value 0.
Requests == {<<1, 65535>>, <<3, 0>>}

\* Faulty variant: the interface number only when the request type
\* addresses an interface.
Control_index_by_recipient(a, request_type, request, value) ==
    [control_type |-> explode_request_type(request_type)[1],
     recipient |-> explode_request_type(request_type)[2],
     request |-> request,
     value |-> value,
     index |-> IF explode_request_type(request_type)[2] = "Interface"
               THEN a.iface.interface_number ELSE 0]

\* Control { control_type, recipient, request, value,
\*           index: self.iface.interface_number() as u16 }
Control(a, request_type, request, value) ==
    [control_type |-> explode_request_type(request_type)[1],
     recipient |-> explode_request_type(request_type)[2],
     request |-> request,
     value |-> value,
     index |-> a.iface.interface_number]

\* self.iface.control_in_blocking(Control {..}, buffer, self.timeout); the
\* length or the TransferError the transfer ends with is returned as it is.
read_control ==
    /\ pc = "bound"
    /\ calls < MaxCalls
    /\ \E request_type \in Bytes, rv \in Requests :
         lastXfer' = [dir |-> "In", request_type |-> request_type,
                      control |-> Control(adapter, request_type, rv[1],
                                          rv[2]),
                      timeout |-> adapter.timeout]
    /\ calls' = calls + 1
    /\ UNCHANGED <<stream, located, devs, vid, pid, opened, device, iface_num, alt, pc, cfg,
                   claimed, result, adapter, visited, usbLog>>

\* self.iface.control_out_blocking(Control {..}, buffer, self.timeout)
write_control ==
    /\ pc = "bound"
    /\ calls < MaxCalls
    /\ \E request_type \in Bytes, rv \in Requests :
         lastXfer' = [dir |-> "Out", request_type |-> request_type,
                      control |-> Control(adapter, request_type, rv[1],
                                          rv[2]),
                      timeout |-> adapter.timeout]
    /\ calls' = calls + 1
    /\ UNCHANGED <<stream, located, devs, vid, pid, opened, device, iface_num, alt, pc, cfg,
                   claimed, result, adapter, visited, usbLog>>

\* Ok(self.dev.reset()?): a bus reset; no control transfer is issued.
usb_reset ==
    /\ pc = "bound"
    /\ calls < MaxCalls
    /\ calls' = calls + 1
    /\ UNCHANGED <<stream, located, devs, vid, pid, opened, device, iface_num, alt, pc, cfg,
                   claimed, result, adapter, visited, usbLog, lastXfer>>

\* ------------------------------------------------------- specifications
Idle ==
    /\ stream = <<>> /\ located = Pending
    /\ opened = 0 /\ cfg = 0 /\ claimed = FALSE /\ result = Pending
    /\ adapter = NoAdapter /\ visited = <<>> /\ usbLog = <<>>
    /\ lastXfer = NoTransfer /\ calls = 0

\* open_device(vid, pid) over the attached devices.
InitOpen ==
    /\ devs \in UNION { [1..k -> DeviceInfos] : k \in 0..MaxDevices }
    /\ vid \in UsbIds /\ pid \in UsbIds
    /\ device = NoDevice /\ iface_num = 0 /\ alt = 0
    /\ pc = "start"
    /\ Idle

NextOpen == open_device

SpecOpen == InitOpen /\ [][NextOpen]_vars

\* from_usb_device(device, iface_num, alt) on an opened device.
InitBind ==
    /\ devs = <<>> /\ vid = 0 /\ pid = 0
    /\ device \in Devices
    /\ iface_num \in IfaceNums /\ alt \in AltSettings
    /\ pc = "opened"
    /\ Idle

NextBind ==
    \/ claim_interface
    \/ set_alt_setting
    \/ scan_config
    \/ loop_exhausted
    \/ drop_adapter

SpecBind == InitBind /\ [][NextBind]_vars

\* The adapter from_usb_device(device, iface_num, alt) has returned, driven
\* by the protocol engine.
InitIo ==
    /\ devs = <<>> /\ vid = 0 /\ pid = 0
    /\ device = [configs |-> <<[descriptors |-> StreamTwoDfu,
                                 interfaces |-> IfacesB]>>,
                 has_languages |-> TRUE]
    /\ iface_num \in IfaceNums /\ alt = 0
    /\ pc = "bound"
    /\ stream = <<>> /\ located = Pending
    /\ opened = 0 /\ cfg = 1 /\ claimed = TRUE /\ result = Ok
    /\ adapter = DfuNusb(iface_num, alt, [kind |-> "Dfu", layout |-> <<>>],
                         find_functional_descriptor(StreamTwoDfu).desc)
    /\ visited = <<[config |-> 1, outcome |-> "Bound"]>>
    /\ usbLog = <<[call |-> "claim_interface", ok |-> TRUE,
                    arg |-> iface_num],
                   [call |-> "set_alt_setting", ok |-> TRUE, arg |-> alt],
                   [call |-> "get_string_descriptor", ok |-> TRUE,
                    arg |-> find_alt(find_interface(device.configs[1],
                                                    iface_num).val, alt)
                              .val.string_index,
                    language |-> 0, timeout_ms |-> StringTimeoutMs]>>
    /\ lastXfer = NoTransfer /\ calls = 0

NextIo ==
    \/ read_control
    \/ write_control
    \/ usb_reset

SpecIo == InitIo /\ [][NextIo]_vars

\* find_functional_descriptor applied to a descriptor byte stream.
MaxWindows == 2

Windows == {WinConfig, WinIface, WinDfuse, WinDfu}
Tails == { <<>>, <<9>>, <<9, 33>>, <<9, 33, 11, 255, 0, 0, 8, 26>>,
           <<7, 5, 129, 3>>, <<33, 9>> }

RECURSIVE Concat(_)
Concat(ws) == IF ws = <<>> THEN <<>> ELSE Head(ws) \o Concat(Tail(ws))

Streams ==
    { Concat(ws) \o t :
        ws \in UNION { [1..k -> Windows] : k \in 0..MaxWindows }, t \in Tails }

InitLocate ==
    /\ stream \in Streams
    /\ located = Pending
    /\ devs = <<>> /\ vid = 0 /\ pid = 0
    /\ device = NoDevice /\ iface_num = 0 /\ alt = 0
    /\ pc = "locate"
    /\ opened = 0 /\ cfg = 0 /\ claimed = FALSE /\ result = Pending
    /\ adapter = NoAdapter /\ visited = <<>> /\ usbLog = <<>>
    /\ lastXfer = NoTransfer /\ calls = 0

locate ==
    /\ pc = "locate"
    /\ located' = find_functional_descriptor(stream)
    /\ pc' = "located"
    /\ UNCHANGED <<stream, devs, vid, pid, opened, device, iface_num, alt,
                   cfg, claimed, result, adapter, visited, usbLog, lastXfer,
                   calls>>

NextLocate == locate

SpecLocate == InitLocate /\ [][NextLocate]_vars

\* ===================================================================
\* Properties
\* ===================================================================
Range(f) == {f[i] : i \in DOMAIN f}

\* The call has returned to its caller.
Returned == pc \in {"done", "bound", "dropped"}

\* claim_interface and set_alt_setting have both succeeded.
ScanStarted ==
    \E i \in 1..Len(usbLog) : usbLog[i].call = "set_alt_setting" /\ usbLog[i].ok

StringRequested ==
    \E i \in 1..Len(usbLog) : usbLog[i].call = "get_string_descriptor"

StringRequestFailed ==
    \E i \in 1..Len(usbLog) :
        usbLog[i].call = "get_string_descriptor" /\ ~usbLog[i].ok

\* The windows of a stream, taken at offsets 0, 9, 18, ...
NumWindows(d) == (Len(d) + 8) \div 9
Window(d, w) == [j \in 1..Min(9, Len(d) - 9 * (w - 1)) |-> d[9 * (w - 1) + j]]
TypeMatch(win) == Len(win) >= 2 /\ win[2] = 33
HasMatch(d) == \E w \in 1..NumWindows(d) : TypeMatch(Window(d, w))
FirstMatch(d) ==
    CHOOSE w \in 1..NumWindows(d) :
        TypeMatch(Window(d, w)) /\ \A v \in 1..(w - 1) : ~TypeMatch(Window(d, v))

\* What the scan of configuration i's descriptors comes to.
Located(i) == find_functional_descriptor(device.configs[i].descriptors)

\* The requested interface and alt-setting in configuration i.
IfacesOf(i) ==
    {x \in Range(device.configs[i].interfaces) : x.interface_number = iface_num}
AltsOf(i) ==
    {y \in UNION {Range(x.alt_settings) : x \in IfacesOf(i)} :
        y.alternate_setting = alt}

\* ---------------------------------------------------------------- C1
\* C1: every control transfer read_control or write_control issues, in any
\* sequence of read_control / write_control / usb_reset calls and whatever
\* the request_type, request and value, carries as index the interface
\* number the adapter was bound with.
C1_IndexIsBoundInterface ==
    lastXfer.dir # "None" => lastXfer.control.index = iface_num

\* A second call, addressed by its request type to the device, on an
\* adapter bound to interface 1.
C1_Witness ==
    /\ calls >= 2
    /\ iface_num = 1
    /\ lastXfer.dir = "Out"
    /\ lastXfer.control.recipient = "Device"
    /\ lastXfer.control.index = 1

\* ---------------------------------------------------------------- C2
\* C2: for each request-type byte, explode_request_type gives the class of
\* bits 5-6 (0 Standard, 1 Class, 2 or 3 Vendor) and the recipient of bits
\* 0-1 (0 Device, 1 Interface, 2 Endpoint, 3 Other), and bits 2-4 and 7 do
\* not influence the pair.
ClassOfBits(b) ==
    IF ~Bit(b, 5) /\ ~Bit(b, 6) THEN "Standard"
    ELSE IF Bit(b, 5) /\ ~Bit(b, 6) THEN "Class"
    ELSE "Vendor"

RecipientOfBits(b) ==
    IF ~Bit(b, 0) /\ ~Bit(b, 1) THEN "Device"
    ELSE IF Bit(b, 0) /\ ~Bit(b, 1) THEN "Interface"
    ELSE IF ~Bit(b, 0) /\ Bit(b, 1) THEN "Endpoint"
    ELSE "Other"

SameDecodedBits(a, b) == \A k \in {0, 1, 5, 6} : Bit(a, k) = Bit(b, k)

C2_DecoderBitExact ==
    lastXfer.dir # "None" =>
        LET b == lastXfer.request_type
            pair == <<lastXfer.control.control_type, lastXfer.control.recipient>>
        IN  /\ pair = <<ClassOfBits(b), RecipientOfBits(b)>>
            /\ explode_request_type(b) = pair
            /\ \A other \in Bytes :
                 SameDecodedBits(other, b) => explode_request_type(other) = pair

\* 0x9D: bits 5-6 are 0 and bits 0-1 are 1, with bits 2, 3, 4 and 7 set.
C2_Witness ==
    /\ lastXfer.dir = "In"
    /\ lastXfer.request_type = 157
    /\ lastXfer.control.control_type = "Standard"
    /\ lastXfer.control.recipient = "Interface"

\* ---------------------------------------------------------------- C3
\* C3: when claim and alt-setting selection succeed, the configurations
\* before configuration k hold no functional descriptor, configuration k
\* holds a valid one and a valid string for the requested alt-setting, and
\* the device answers the string request, from_usb_device succeeds: the
\* configurations before k are skipped, and the adapter's functional
\* descriptor and the version the protocol variant is built from are those
\* of configuration k.
ValidStringAt(k) ==
    /\ AltsOf(k) # {}
    /\ \A y \in AltsOf(k) :
         /\ y.string_index \in DOMAIN StringTable
         /\ DfuProtocol_new(trim_end_matches(StringTable[y.string_index]),
                            Located(k).desc.dfu_version).tag = "Ok"

OnlyConfigHolds(k) ==
    /\ \A j \in 1..(k - 1) : ~HasMatch(device.configs[j].descriptors)
    /\ HasMatch(device.configs[k].descriptors)
    /\ Located(k).tag = "Ok"
    /\ ValidStringAt(k)

FirstYielding(i) ==
    /\ Located(i).tag = "Ok"
    /\ \A j \in 1..(i - 1) : Located(j).tag # "Ok"

C4_InvalidInterfaceOrAlt ==
    \A i \in 1..Len(visited) :
        (Returned /\ ScanStarted /\ FirstYielding(i)) =>
            /\ IfacesOf(i) = {} =>
                 /\ result = Err("InvalidInterface")
                 /\ ~StringRequested /\ adapter = NoAdapter /\ pc = "done"
            /\ (IfacesOf(i) # {} /\ AltsOf(i) = {}) =>
                 /\ result = Err("InvalidAlt")
                 /\ ~StringRequested /\ adapter = NoAdapter /\ pc = "done"

\* The second configuration is the first with a functional descriptor, and
\* it lists the interface without the alt-setting.
C4_Witness ==
    /\ pc = "done"
    /\ Len(visited) = 2
    /\ FirstYielding(2)
    /\ IfacesOf(2) # {} /\ AltsOf(2) = {}
    /\ result = Err("InvalidAlt")
    /\ Len(device.configs) = 3

\* ---------------------------------------------------------------- C5
\* C5: a configuration that yields a functional descriptor and holds the
\* requested interface and alt-setting, the alt-setting having no string
\* index, does not end the call: the next configuration is examined; and
\* NoDfuCapableDeviceFound is returned only once every configuration has
\* been examined without a (functional descriptor, string) pair.
NoStringAt(i) ==
    /\ Located(i).tag = "Ok"
    /\ AltsOf(i) # {}
    /\ \A y \in AltsOf(i) : y.string_index = 0

C5_NoStringContinues ==
    /\ \A i \in 1..Len(visited) :
         NoStringAt(i) =>
            /\ visited[i].outcome = "NoStringIndex"
            /\ (Returned /\ i < Len(device.configs)) => Len(visited) > i
            /\ (Returned /\ i = Len(device.configs)) =>
                   result = Err("NoDfuCapableDeviceFound")
    /\ (Returned /\ result = Err("NoDfuCapableDeviceFound")) =>
            /\ Len(visited) = Len(device.configs)
            /\ \A i \in 1..Len(visited) :
                   /\ visited[i].config = i
                   /\ visited[i].outcome \in {"NotFound", "NoStringIndex"}
            /\ ~StringRequested
            /\ adapter = NoAdapter

\* The first of three configurations has the alt-setting without a string;
\* all three are examined before NoDfuCapableDeviceFound.
C5_Witness ==
    /\ pc = "done"
    /\ result = Err("NoDfuCapableDeviceFound")
    /\ Len(device.configs) = 3
    /\ Len(visited) = 3
    /\ NoStringAt(1)
    /\ visited[1].outcome = "NoStringIndex"

\* ---------------------------------------------------------------- C6
\* C6: whenever from_usb_device returns an error the interface is not
\* claimed; the interface is claimed only while the call is under way or an
\* adapter it returned is alive, and it is released once the adapter is
\* dropped.
InterfaceClaimSucceeded ==
    \E i \in 1..Len(usbLog) : usbLog[i].call = "claim_interface" /\ usbLog[i].ok

C6_ReleasedOnError ==
    /\ (Returned /\ result.tag = "Err") => ~claimed
    /\ claimed => (pc \in {"claimed", "scan"} \/ (pc = "bound" /\ adapter.live))
    /\ pc = "bound" => (claimed /\ adapter.live /\ result = Ok)
    /\ pc = "dropped" => ~claimed

\* Alt-setting selection has failed after the claim succeeded.
C6_Witness ==
    /\ pc = "done"
    /\ InterfaceClaimSucceeded
    /\ ~ScanStarted
    /\ result = Err("Io")
    /\ ~claimed

\* ---------------------------------------------------------------- C7
\* C7: open_device(vid, pid) returns the first enumerated device whose
\* vendor and product IDs both match, and fails with CouldNotOpenDevice if
\* none matches or if opening the matched device fails.
Matches(i) == devs[i].vendor_id = vid /\ devs[i].product_id = pid

C7_OpenFailureIsCouldNotOpen ==
    (pc # "start" /\ usbLog[1].ok) =>
        IF \A i \in 1..Len(devs) : ~Matches(i)
        THEN result = Err("CouldNotOpenDevice")
        ELSE LET first == CHOOSE i \in 1..Len(devs) :
                              Matches(i) /\ \A j \in 1..(i - 1) : ~Matches(j)
             IN  IF devs[first].open_ok
                 THEN result = Ok /\ opened = first
                 ELSE result = Err("CouldNotOpenDevice")

\* ---------------------------------------------------------------- C8
\* C8: the first window of a configuration's descriptors (windows at offsets
\* 0, 9, 18, ...) that is a descriptor-type match decides
\* find_functional_descriptor: its descriptor if it parses, a parse error if
\* it does not, no later window being examined, and not found exactly when
\* no window matches; from_usb_device turns a parse error into a
\* FunctionalDescriptor failure at once, later configurations unscanned.
C8_FirstMatchDecides ==
    /\ \A i \in 1..Len(device.configs) :
         LET d == device.configs[i].descriptors
             r == Located(i)
         IN  IF HasMatch(d)
             THEN LET w == FirstMatch(d)
                      win == Window(d, w)
                  IN  /\ r.window = w /\ r.examined = w
                      /\ r.tag = from_bytes(win).tag
                      /\ r.tag = IF Len(win) = 9 THEN "Ok" ELSE "Err"
                      /\ r.tag = "Ok" =>
                           /\ r.desc = from_bytes(win).desc
                           /\ r.desc.dfu_version = <<win[9], win[8]>>
             ELSE r.tag = "None" /\ r.examined = NumWindows(d)
    /\ \A i \in 1..Len(visited) :
         Located(i).tag = "Err" =>
            /\ visited[i].outcome = "ParseError"
            /\ i = Len(visited)
            /\ result = Err("FunctionalDescriptor")
            /\ pc = "done"

\* The second of three configurations has a cut-off functional descriptor,
\* the third a valid one that is never looked at.
C8_Witness ==
    /\ pc = "done"
    /\ result = Err("FunctionalDescriptor")
    /\ Len(device.configs) = 3
    /\ Len(visited) = 2
    /\ Located(2).tag = "Err"
    /\ Located(3).tag = "Ok"

\* ---------------------------------------------------------------- C9
\* C9: when the device has no string-descriptor language table and binding
\* comes to request the alt-setting's string, from_usb_device fails with
\* MissingLanguage.
C9_MissingLanguageSurfaced ==
    (Returned /\ StringRequested /\ ~device.has_languages)
        => result = Err("MissingLanguage")

\* --------------------------------------------------------------- C10
\* The stream positions find_functional_descriptor has read.
BytesRead ==
    UNION { {9 * (w - 1) + j : j \in 1..from_bytes(chunks(stream)[w]).consumed} :
            w \in 1..located.examined }

FullWindows == Len(stream) \div 9

\* C10 as stated: when the stream's length is not a multiple of 9 the final
\* partial window is never matched: it contributes neither a descriptor nor
\* an error, and no byte beyond the end of the stream is read.
C10_PartialWindowNeverMatched ==
    (pc = "located" /\ Len(stream) % 9 # 0) =>
        /\ located.window # FullWindows + 1
        /\ located.tag # "None" => located.window <= FullWindows
        /\ BytesRead \subseteq 1..Len(stream)

\* C10 as amended: the final partial window is handed to the parser as it
\* is: it never yields a descriptor and no byte beyond the end of the stream
\* is read, but when no full window is a descriptor-type match and the
\* partial window has a second byte of 0x21, the result is a parse error;
\* otherwise the partial window contributes nothing.
C10_PartialWindowYieldsNoDescriptor ==
    (pc = "located" /\ Len(stream) % 9 # 0) =>
        LET tail == Window(stream, FullWindows + 1)
            fullMatch == \E w \in 1..FullWindows : TypeMatch(Window(stream, w))
        IN  /\ located.tag = "Ok" => located.window <= FullWindows
            /\ BytesRead \subseteq 1..Len(stream)
            /\ fullMatch =>
                 /\ located.tag = "Ok"
                 /\ located.window = FirstMatch(stream)
                 /\ located.examined = located.window
            /\ (~fullMatch /\ TypeMatch(tail)) =>
                 /\ located.tag = "Err"
                 /\ located.window = FullWindows + 1
            /\ (~fullMatch /\ ~TypeMatch(tail)) =>
                 /\ located.tag = "None"
                 /\ located.examined = FullWindows + 1

\* A two-byte tail of descriptor type 0x21 after one full window.
C10_Witness ==
    /\ pc = "located"
    /\ stream = WinConfig \o <<9, 33>>
    /\ located.tag = "Err"
    /\ located.window = 2

====
